---- MODULE Spec2Model ----
(***************************************************************************)
(* The ADI HTTP server (src/main.rs): one optional index handle behind a   *)
(* tokio::sync::RwLock, read by the GET handlers and replaced by           *)
(* POST /index.                                                            *)
(***************************************************************************)
EXTENDS Integers, Sequences, FiniteSets, TLC

\* ---------------------------------------------------------------- bounds
NumReaders == 2
NumRebuilders == 2
MaxOpens == 3

Readers == 1..NumReaders
Rebuilders == (NumReaders + 1)..(NumReaders + NumRebuilders)
Tasks == Readers \cup Rebuilders

\* Option<adi_core::Adi>: None is 0, Some(h) is the handle number h >= 1.
None == 0

\* The read routes that go through state.adi.read().
ReadOps == {"status", "search", "search_symbols", "get_symbol",
            "search_files", "get_file", "get_tree"}
\* The read routes whose engine call is itself awaited.
AsyncOps == {"search", "search_symbols", "search_files"}

\* The routes that extract Query<SearchQuery>.
QueryOps == {"search", "search_symbols", "search_files"}

\* A query string without limit, and a handler without SearchQuery.
Omitted == -1
NoQuery == -1

\* The limit parameters requests are sent with.
Limits == {Omitted, 0, 10, 11}

\* fn default_limit() -> usize
DefaultLimit == 10

\* Variant: #[serde(default)] without the function, usize::default().
ParseLimitZero(raw) == IF raw = Omitted THEN 0 ELSE raw

\* #[serde(default = "default_limit")] limit: usize
ParseLimit(raw) == IF raw = Omitted THEN DefaultLimit ELSE raw

\* First CLI argument: absent, a relative path, an absolute path.
CliArgs == {"none", "rel", "/abs"}
Cwd == "/abs"

VARIABLES
    pcMain,         \* where main() is
    project_path,   \* main's local project_path ("" before it is computed)
    state_path,     \* AppState.project_path ("" before AppState is built)
    slot,           \* the value inside AppState.adi
    readers,        \* tasks holding a read guard of AppState.adi
    writer,         \* the task holding the write guard, or 0
    queue,          \* tasks waiting for the lock, first come first
    pc,             \* where each request task is
    op,             \* the route a reader task is serving
    acq,            \* the slot value when the task got its read guard
    view,           \* the handle the engine operation was invoked on
    built,          \* the handle a rebuild has opened
    resp,           \* status code of the response, 0 while there is none
    body,           \* JSON body of a read route's response
    engErr,         \* the message of the error the engine call returned
    rawLimit,       \* the limit parameter of the request's query string
    limit,          \* SearchQuery.limit, what the engine is called with
    opens,          \* number of Adi::open calls made so far
    openArgs,       \* the paths Adi::open was called with
    swapLog,        \* the handles stored into the slot, in order
    startLen,       \* Len(swapLog) when the request started
    attempt,        \* which Adi::open call (1, 2, ...) a rebuild made
    dropped         \* handles that have been dropped

vars == <<pcMain, project_path, state_path, slot, readers, writer, queue,
          pc, op, acq, view, built, resp, body, engErr, rawLimit, limit, opens,
          openArgs, swapLog, startLen, attempt, dropped>>

mainVars == <<pcMain, project_path, state_path>>
lockVars == <<readers, writer, queue>>

\* ------------------------------------------------------- pure functions
\* std::fs::canonicalize on the paths of the model.
Canonicalize(p) == IF p = "rel" THEN "/abs" ELSE p

RECURSIVE Remove(_, _)
Remove(q, t) ==
    IF q = <<>> THEN <<>>
    ELSE IF Head(q) = t THEN Remove(Tail(q), t)
    ELSE <<Head(q)>> \o Remove(Tail(q), t)

\* Variants of the lock: a lock that admits one holder of any kind, and a
\* read-preferring lock that lets readers pass a queued writer.
CanReadExclusive(rd, wr, q) == wr = 0 /\ rd = {} /\ q = <<>>
CanReadPreferring(rd, wr, q) == wr = 0

\* tokio::sync::RwLock: a FIFO-fair (write-preferring) lock. A read() gets
\* the guard at once when no writer holds the lock and nobody is queued.
CanReadNow(rd, wr, q) == wr = 0 /\ q = <<>>

\* Variant: a write() that does not wait for the readers to leave.
CanWriteOverReaders(rd, wr, q) == wr = 0 /\ q = <<>>

\* A write() gets the guard at once when the lock is entirely free.
CanWriteNow(rd, wr, q) == wr = 0 /\ rd = {} /\ q = <<>>

\* What a release hands on: the waiters at the head of the queue are granted
\* in order, readers together, a writer only when nobody holds the lock.
\* Variant: a release that wakes none of the queued tasks.
GrantNone(rd, wr, q) == [readers |-> rd, writer |-> wr, queue |-> q]

RECURSIVE Grant(_, _, _)
Grant(rd, wr, q) ==
    IF q = <<>> \/ wr # 0 THEN [readers |-> rd, writer |-> wr, queue |-> q]
    ELSE IF Head(q) \in Readers THEN Grant(rd \cup {Head(q)}, wr, Tail(q))
    ELSE IF rd = {} THEN [readers |-> rd, writer |-> Head(q), queue |-> Tail(q)]
    ELSE [readers |-> rd, writer |-> wr, queue |-> q]

\* Which tasks a release has woken, and where they continue.
Woken(p, lk) ==
    [u \in Tasks |->
        IF p[u] = "wait_read" /\ u \in lk.readers THEN "locked"
        ELSE IF p[u] = "wait_write" /\ u = lk.writer THEN "swapping"
        ELSE p[u]]

AcqWoken(a, p, lk, s) ==
    [u \in Tasks |-> IF p[u] = "wait_read" /\ u \in lk.readers THEN s ELSE a[u]]

\* Variant: the handler unwraps without looking.
IsSomeAlways(s) == TRUE

\* adi.as_ref(): Some(adi) or None.
IsSome(s) == s # None

\* Variants of the assignment: the slot is taken and left empty, the new
\* instance is not stored, the new instance is stored only when it is newer.
StoreTake(old, new) == None
StoreKeep(old, new) == old
StoreIfNewer(old, new) == IF new > old THEN new ELSE old

\* *guard = Some(adi): the slot after the assignment.
StoreNew(old, new) == new

\* Variant: a failed build resets the slot.
ClearOnError(cur) == None

\* The error returns of index_project leave state.adi alone.
AfterBuildError(cur) == cur

\* What an engine operation returns: Ok, or an Err that is a missing entity
\* or an internal fault.
EngineResults == {"ok", "notfound", "internal"}

\* e.to_string() of the engine's errors.
MsgOf(res) ==
    IF res = "notfound" THEN "not found"
    ELSE IF res = "internal" THEN "database error"
    ELSE ""

NoBody == [kind |-> "none", text |-> ""]

\* Variant: the handler answers an error with a text of its own.
GenericErrorBody(msg) == [kind |-> "error", text |-> "internal error"]

\* Json(json!({ "error": e.to_string() }))
ErrorBody(msg) == [kind |-> "error", text |-> msg]

\* Json(serde_json::to_value(result).unwrap())
DataBody == [kind |-> "data", text |-> ""]

\* The body of the None arm: /status has a text of its own.
NotReadyBody(o) ==
    IF o = "status" THEN ErrorBody("ADI not initialized. POST /index first.")
    ELSE ErrorBody("ADI not initialized")

\* The status code a read handler answers an engine result with.
StatusOf(o, res) ==
    IF res = "ok" THEN 200
    ELSE IF o \in {"get_symbol", "get_file"} THEN 404
    ELSE 500

\* ------------------------------------------------------------------ Init
Init ==
    /\ pcMain = "args"
    /\ project_path = ""
    /\ state_path = ""
    /\ slot = None
    /\ readers = {}
    /\ writer = 0
    /\ queue = <<>>
    /\ pc = [t \in Tasks |-> "idle"]
    /\ op = [t \in Tasks |-> "none"]
    /\ acq = [t \in Tasks |-> None]
    /\ view = [t \in Tasks |-> None]
    /\ built = [t \in Tasks |-> None]
    /\ resp = [t \in Tasks |-> 0]
    /\ body = [t \in Tasks |-> NoBody]
    /\ engErr = [t \in Tasks |-> ""]
    /\ rawLimit = [t \in Tasks |-> Omitted]
    /\ limit = [t \in Tasks |-> NoQuery]
    /\ opens = 0
    /\ openArgs = {}
    /\ swapLog = <<>>
    /\ startLen = [t \in Tasks |-> 0]
    /\ attempt = [t \in Tasks |-> 0]
    /\ dropped = {}

queryVars == <<rawLimit, limit>>
reqVars == <<pc, op, acq, view, built, resp, body, engErr, queryVars, startLen,
            attempt>>

\* ------------------------------------------------------------------ main
\* let project_path = if args.len() > 1 { args[1] } else { current_dir()? }
MainArgs(a, cwdOk) ==
    /\ pcMain = "args"
    /\ IF a # "none"
         THEN /\ project_path' = a
              /\ pcMain' = "open"
         ELSE IF cwdOk
           THEN /\ project_path' = Cwd
                /\ pcMain' = "open"
           ELSE /\ project_path' = project_path
                /\ pcMain' = "exited"
    /\ UNCHANGED <<state_path, slot, lockVars, reqVars, opens, openArgs,
                   swapLog, dropped>>

\* Variant: a failed open at startup ends the process.
MainOpenFatal(ok) ==
    /\ pcMain = "open"
    /\ opens' = opens + 1
    /\ openArgs' = openArgs \cup {project_path}
    /\ IF ok
         THEN /\ slot' = opens + 1
              /\ swapLog' = Append(swapLog, opens + 1)
              /\ pcMain' = "canon"
         ELSE /\ slot' = None
              /\ swapLog' = swapLog
              /\ pcMain' = "exited"
    /\ UNCHANGED <<project_path, state_path, lockVars, reqVars, dropped>>

\* let adi = match Adi::open(&project_path).await { Ok => Some, Err => None }
MainOpen(ok) ==
    /\ pcMain = "open"
    /\ opens' = opens + 1
    /\ openArgs' = openArgs \cup {project_path}
    /\ IF ok
         THEN /\ slot' = opens + 1
              /\ swapLog' = Append(swapLog, opens + 1)
         ELSE /\ slot' = None
              /\ swapLog' = swapLog
    /\ pcMain' = "canon"
    /\ UNCHANGED <<project_path, state_path, lockVars, reqVars, dropped>>

\* project_path: project_path.canonicalize()?  (an error ends the process)
MainCanon(ok) ==
    /\ pcMain = "canon"
    /\ IF ok
         THEN /\ state_path' = Canonicalize(project_path)
              /\ pcMain' = "bind"
         ELSE /\ state_path' = state_path
              /\ pcMain' = "exited"
    /\ UNCHANGED <<project_path, slot, lockVars, reqVars, opens, openArgs,
                   swapLog, dropped>>

\* TcpListener::bind(addr).await?  then axum::serve
MainBind(ok) ==
    /\ pcMain = "bind"
    /\ pcMain' = IF ok THEN "serving" ELSE "exited"
    /\ UNCHANGED <<project_path, state_path, slot, lockVars, reqVars,
                   opens, openArgs, swapLog, dropped>>

\* ---------------------------------------------------------- read routes
\* GET / and /health: no state is touched.
Health(t) ==
    /\ pcMain = "serving"
    /\ pc[t] = "idle"
    /\ pc' = [pc EXCEPT ![t] = "done"]
    /\ resp' = [resp EXCEPT ![t] = 200]
    /\ body' = [body EXCEPT ![t] = DataBody]
    /\ UNCHANGED <<mainVars, queryVars, slot, lockVars, op, acq, view, built, startLen,
                   attempt, opens, engErr,
                   openArgs, swapLog, dropped>>

\* A read handler is entered: let adi = state.adi.read().await
StartRead(t, o, lim) ==
    /\ pcMain = "serving"
    /\ pc[t] = "idle"
    /\ op' = [op EXCEPT ![t] = o]
    /\ IF o \in QueryOps
         THEN /\ rawLimit' = [rawLimit EXCEPT ![t] = lim]
              /\ limit' = [limit EXCEPT ![t] = ParseLimit(lim)]
         ELSE UNCHANGED queryVars
    /\ startLen' = [startLen EXCEPT ![t] = Len(swapLog)]
    /\ IF CanReadNow(readers, writer, queue)
         THEN /\ readers' = readers \cup {t}
              /\ pc' = [pc EXCEPT ![t] = "locked"]
              /\ acq' = [acq EXCEPT ![t] = slot]
              /\ UNCHANGED queue
         ELSE /\ queue' = Append(queue, t)
              /\ pc' = [pc EXCEPT ![t] = "wait_read"]
              /\ UNCHANGED <<readers, acq>>
    /\ UNCHANGED <<mainVars, slot, writer, view, built, resp, body, engErr,
                   attempt, opens, openArgs, swapLog, dropped>>

\* match adi.as_ref(): Some(adi) => the engine operation is invoked,
\* None => 503 and the guard is dropped.
Deref(t) ==
    /\ pc[t] = "locked"
    /\ IF IsSome(slot)
         THEN /\ view' = [view EXCEPT ![t] = slot]
              /\ pc' = [pc EXCEPT ![t] = "calling"]
              /\ UNCHANGED <<lockVars, acq, resp, body, op, startLen, queryVars>>
         ELSE LET lk == Grant(readers \ {t}, writer, queue)
                  p == [pc EXCEPT ![t] = "done"] IN
              /\ resp' = [resp EXCEPT ![t] = 503]
              /\ body' = [body EXCEPT ![t] = NotReadyBody(op[t])]
              /\ rawLimit' = [rawLimit EXCEPT ![t] = Omitted]
              /\ limit' = [limit EXCEPT ![t] = NoQuery]
              /\ op' = [op EXCEPT ![t] = "none"]
              /\ startLen' = [startLen EXCEPT ![t] = 0]
              /\ readers' = lk.readers
              /\ writer' = lk.writer
              /\ queue' = lk.queue
              /\ pc' = Woken(p, lk)
              /\ acq' = AcqWoken([acq EXCEPT ![t] = None], p, lk, slot)
              /\ UNCHANGED view
    /\ UNCHANGED <<mainVars, slot, built, engErr, attempt, opens, openArgs,
                   swapLog, dropped>>

\* The engine operation returns; the handler answers and drops the guard.
EngineReturn(t, res) ==
    /\ pc[t] = "calling"
    /\ LET lk == Grant(readers \ {t}, writer, queue)
           p == [pc EXCEPT ![t] = "done"] IN
       /\ resp' = [resp EXCEPT ![t] = StatusOf(op[t], res)]
       /\ body' = [body EXCEPT ![t] =
                     IF res = "ok" THEN DataBody ELSE ErrorBody(MsgOf(res))]
       /\ engErr' = [engErr EXCEPT ![t] = MsgOf(res)]
       /\ rawLimit' = [rawLimit EXCEPT ![t] = Omitted]
       /\ limit' = [limit EXCEPT ![t] = NoQuery]
       /\ readers' = lk.readers
       /\ writer' = lk.writer
       /\ queue' = lk.queue
       /\ pc' = Woken(p, lk)
       /\ acq' = AcqWoken([acq EXCEPT ![t] = None], p, lk, slot)
       /\ view' = [view EXCEPT ![t] = None]
       /\ op' = [op EXCEPT ![t] = "none"]
       /\ startLen' = [startLen EXCEPT ![t] = 0]
    /\ UNCHANGED <<mainVars, slot, built, attempt, opens,
                   openArgs, swapLog, dropped>>

\* ---------------------------------------------------------- POST /index
\* Variant: the write guard is taken on entry and held through the build.
StartRebuildLocked(w) ==
    /\ pcMain = "serving"
    /\ pc[w] = "idle"
    /\ opens < MaxOpens
    /\ CanWriteNow(readers, writer, queue)
    /\ writer' = w
    /\ opens' = opens + 1
    /\ openArgs' = openArgs \cup {state_path}
    /\ attempt' = [attempt EXCEPT ![w] = opens + 1]
    /\ op' = [op EXCEPT ![w] = "index"]
    /\ pc' = [pc EXCEPT ![w] = "opening"]
    /\ UNCHANGED <<mainVars, queryVars, slot, readers, queue, acq, view, built, resp,
                   body, engErr, startLen, swapLog, dropped>>

\* index_project is entered: Adi::open(&state.project_path).await
StartRebuild(w) ==
    /\ pcMain = "serving"
    /\ pc[w] = "idle"
    /\ opens < MaxOpens
    /\ opens' = opens + 1
    /\ openArgs' = openArgs \cup {state_path}
    /\ attempt' = [attempt EXCEPT ![w] = opens + 1]
    /\ op' = [op EXCEPT ![w] = "index"]
    /\ pc' = [pc EXCEPT ![w] = "opening"]
    /\ UNCHANGED <<mainVars, queryVars, slot, lockVars, acq, view, built, resp, body,
                   engErr, startLen, swapLog, dropped>>

\* Adi::open returns: Ok(adi) => adi.index().await, Err(e) => 500.
OpenReturn(w, ok) ==
    /\ pc[w] = "opening"
    /\ IF ok
         THEN /\ built' = [built EXCEPT ![w] = attempt[w]]
              /\ pc' = [pc EXCEPT ![w] = "indexing"]
              /\ UNCHANGED <<slot, resp>>
         ELSE /\ resp' = [resp EXCEPT ![w] = 500]
              /\ slot' = AfterBuildError(slot)
              /\ pc' = [pc EXCEPT ![w] = "done"]
              /\ UNCHANGED built
    /\ UNCHANGED <<mainVars, queryVars, lockVars, op, acq, view, body, engErr, startLen,
                   attempt, opens, openArgs, swapLog, dropped>>

\* Variant: the write lock is requested before the outcome of index() is
\* matched, so a failing rebuild queues for exclusive access as well.
IndexReturnLocking(w, ok) ==
    /\ pc[w] = "indexing"
    /\ IF ok
         THEN /\ IF CanWriteNow(readers, writer, queue)
                   THEN /\ writer' = w
                        /\ pc' = [pc EXCEPT ![w] = "swapping"]
                        /\ UNCHANGED queue
                   ELSE /\ queue' = Append(queue, w)
                        /\ pc' = [pc EXCEPT ![w] = "wait_write"]
                        /\ UNCHANGED writer
              /\ UNCHANGED <<slot, resp, dropped, built>>
         ELSE /\ resp' = [resp EXCEPT ![w] = 500]
              /\ slot' = AfterBuildError(slot)
              /\ dropped' = dropped \cup {built[w]}
              /\ built' = [built EXCEPT ![w] = None]
              /\ pc' = [pc EXCEPT ![w] = "done"]
              /\ queue' = Append(queue, w)
              /\ UNCHANGED writer
    /\ UNCHANGED <<mainVars, queryVars, readers, op, acq, view, body, engErr, startLen,
                   attempt, opens, openArgs, swapLog>>

\* adi.index() returns: Ok(p) => state.adi.write().await, Err(e) => 500 and
\* the new instance is dropped.
IndexReturn(w, ok) ==
    /\ pc[w] = "indexing"
    /\ IF ok
         THEN /\ IF CanWriteNow(readers, writer, queue)
                   THEN /\ writer' = w
                        /\ pc' = [pc EXCEPT ![w] = "swapping"]
                        /\ UNCHANGED queue
                   ELSE /\ queue' = Append(queue, w)
                        /\ pc' = [pc EXCEPT ![w] = "wait_write"]
                        /\ UNCHANGED writer
              /\ UNCHANGED <<slot, resp, dropped, built>>
         ELSE /\ resp' = [resp EXCEPT ![w] = 500]
              /\ slot' = AfterBuildError(slot)
              /\ dropped' = dropped \cup {built[w]}
              /\ built' = [built EXCEPT ![w] = None]
              /\ pc' = [pc EXCEPT ![w] = "done"]
              /\ UNCHANGED <<writer, queue>>
    /\ UNCHANGED <<mainVars, queryVars, readers, op, acq, view, body, engErr, startLen,
                   attempt, opens, openArgs, swapLog>>

\* *guard = Some(adi): the old value is dropped, the new one stored, the
\* write guard released, and 200 answered.
Swap(w) ==
    /\ pc[w] = "swapping"
    /\ writer = w
    /\ LET new == StoreNew(slot, built[w])
           lk == Grant(readers, 0, queue)
           p == [pc EXCEPT ![w] = "done"] IN
       /\ slot' = new
       /\ dropped' = IF slot # None /\ slot # new THEN dropped \cup {slot}
                     ELSE dropped
       /\ swapLog' = Append(swapLog, built[w])
       /\ resp' = [resp EXCEPT ![w] = 200]
       /\ readers' = lk.readers
       /\ writer' = lk.writer
       /\ queue' = lk.queue
       /\ pc' = Woken(p, lk)
       /\ acq' = AcqWoken(acq, p, lk, new)
       /\ built' = [built EXCEPT ![w] = None]
    /\ UNCHANGED <<mainVars, queryVars, op, view, body, engErr, startLen, attempt, opens,
                   openArgs>>

\* ------------------------------------------------------- the connection
\* The handlers run inside the connection's future (no tokio::spawn): when
\* the client goes away the future is dropped at the await it is parked on,
\* and with it the guards and the instance it owns.
AwaitPoint(t) ==
    \/ pc[t] \in {"wait_read", "opening", "indexing", "wait_write"}
    \/ pc[t] = "calling" /\ op[t] \in AsyncOps

Abandon(t) ==
    /\ AwaitPoint(t)
    /\ LET lk == Grant(readers \ {t}, writer, Remove(queue, t))
           p == [pc EXCEPT ![t] = "idle"] IN
       /\ readers' = lk.readers
       /\ writer' = lk.writer
       /\ queue' = lk.queue
       /\ pc' = Woken(p, lk)
       /\ acq' = AcqWoken([acq EXCEPT ![t] = None], p, lk, slot)
    /\ op' = [op EXCEPT ![t] = "none"]
    /\ rawLimit' = [rawLimit EXCEPT ![t] = Omitted]
    /\ limit' = [limit EXCEPT ![t] = NoQuery]
    /\ view' = [view EXCEPT ![t] = None]
    /\ built' = [built EXCEPT ![t] = None]
    /\ startLen' = [startLen EXCEPT ![t] = 0]
    /\ attempt' = [attempt EXCEPT ![t] = 0]
    /\ dropped' = IF built[t] # None THEN dropped \cup {built[t]} ELSE dropped
    /\ UNCHANGED <<mainVars, slot, resp, body, engErr, opens, openArgs,
                   swapLog>>

\* The response has been sent: the task is free to serve the next request.
Close(t) ==
    /\ pc[t] = "done"
    /\ pc' = [pc EXCEPT ![t] = "idle"]
    /\ op' = [op EXCEPT ![t] = "none"]
    /\ acq' = [acq EXCEPT ![t] = None]
    /\ view' = [view EXCEPT ![t] = None]
    /\ built' = [built EXCEPT ![t] = None]
    /\ resp' = [resp EXCEPT ![t] = 0]
    /\ body' = [body EXCEPT ![t] = NoBody]
    /\ engErr' = [engErr EXCEPT ![t] = ""]
    /\ rawLimit' = [rawLimit EXCEPT ![t] = Omitted]
    /\ limit' = [limit EXCEPT ![t] = NoQuery]
    /\ startLen' = [startLen EXCEPT ![t] = 0]
    /\ attempt' = [attempt EXCEPT ![t] = 0]
    /\ UNCHANGED <<mainVars, slot, lockVars, opens, openArgs, swapLog, dropped>>

\* ------------------------------------------------------------------ Next
Main ==
    \/ \E a \in CliArgs, ok \in BOOLEAN : MainArgs(a, ok)
    \/ \E ok \in BOOLEAN : MainOpen(ok)
    \/ \E ok \in BOOLEAN : MainCanon(ok)
    \/ \E ok \in BOOLEAN : MainBind(ok)

Serve ==
    \/ \E t \in Readers : Health(t)
    \/ \E t \in Readers, o \in ReadOps : StartRead(t, o, Omitted)
    \/ \E t \in Readers : Deref(t)
    \/ \E t \in Readers, res \in EngineResults : EngineReturn(t, res)
    \/ \E w \in Rebuilders : StartRebuild(w)
    \/ \E w \in Rebuilders, ok \in BOOLEAN : OpenReturn(w, ok)
    \/ \E w \in Rebuilders, ok \in BOOLEAN : IndexReturn(w, ok)
    \/ \E w \in Rebuilders : Swap(w)
    \/ \E t \in Tasks : Close(t)

Next ==
    \/ Main
    \/ Serve
    \/ \E t \in Tasks : Abandon(t)

Spec == Init /\ [][Next]_vars

\* The server under fair scheduling, with the callers of POST /index staying
\* connected. Reads come from two routes, one whose engine call is
\* synchronous and one whose engine call is awaited.
FairRoutes == {"status", "search"}

FairServe ==
    \/ \E t \in Readers, o \in FairRoutes : StartRead(t, o, Omitted)
    \/ \E t \in Readers : Deref(t)
    \/ \E t \in Readers, res \in EngineResults : EngineReturn(t, res)
    \/ \E w \in Rebuilders : StartRebuild(w)
    \/ \E w \in Rebuilders, ok \in BOOLEAN : OpenReturn(w, ok)
    \/ \E w \in Rebuilders, ok \in BOOLEAN : IndexReturn(w, ok)
    \/ \E w \in Rebuilders : Swap(w)
    \/ \E t \in Tasks : Close(t)

FairNext ==
    \/ Main
    \/ FairServe
    \/ \E t \in Readers : Abandon(t)

\* The runtime keeps polling a task that can go on, and every engine call
\* returns; nothing obliges a client to send a request.
Fairness ==
    /\ \A t \in Readers : WF_vars(Deref(t))
    /\ \A t \in Readers : WF_vars(\E res \in EngineResults : EngineReturn(t, res))
    /\ \A w \in Rebuilders : WF_vars(\E ok \in BOOLEAN : OpenReturn(w, ok))
    /\ \A w \in Rebuilders : WF_vars(\E ok \in BOOLEAN : IndexReturn(w, ok))
    /\ \A w \in Rebuilders : WF_vars(Swap(w))

FairSpec == Init /\ [][FairNext]_vars /\ Fairness

\* Fair scheduling with every client free to go away at any await.
LiveNext ==
    \/ Main
    \/ FairServe
    \/ \E t \in Tasks : Abandon(t)

LiveSpec == Init /\ [][LiveNext]_vars /\ Fairness

\* The search routes called with every limit parameter, startup and reads only.
LimitServe ==
    \/ \E t \in Readers, o \in QueryOps, lim \in Limits : StartRead(t, o, lim)
    \/ \E t \in Readers : Deref(t)
    \/ \E t \in Readers, res \in EngineResults : EngineReturn(t, res)
    \/ \E t \in Readers : Close(t)

LimitNext == Main \/ LimitServe

LimitSpec == Init /\ [][LimitNext]_vars

\* ---------------------------------------------------------------- claims
Last(q) == q[Len(q)]
Installed == {swapLog[i] : i \in 1..Len(swapLog)}
Pos(t) == CHOOSE i \in 1..Len(queue) : queue[i] = t
Building(w) == pc[w] \in {"opening", "indexing", "wait_write", "swapping"}
InFlight(t) == pc[t] \in {"wait_read", "locked", "calling"}

\* C1: once the slot holds a handle it never becomes empty again; the slot
\* only ever changes to a handle that was never current before.
C1_SlotNeverCleared ==
    [][slot' # slot => (slot' # None /\ slot' \notin Installed)]_vars

\* C1 witness: a handle has been replaced by another one, and a rebuild has
\* failed, with the slot still holding a handle.
C1_Witness ==
    /\ Len(swapLog) >= 2
    /\ slot # None
    /\ \E w \in Rebuilders : pc[w] = "done" /\ resp[w] = 500

\* C2: a rebuild that fails in open or in index answers 500 and changes
\* neither the slot nor the lock, so reads answer as before the attempt.
C2_FailedRebuildLeavesSlot ==
    [][\A w \in Rebuilders :
        (pc[w] \in {"opening", "indexing"} /\ pc'[w] = "done")
          => (resp'[w] = 500 /\ slot' = slot /\ swapLog' = swapLog
              /\ readers' = readers /\ writer' = writer /\ queue' = queue)]_vars

\* C2 witness: one rebuild failed in open and another failed in index (its
\* instance was dropped), while a handle is current.
C2_Witness ==
    /\ slot # None
    /\ \E w1, w2 \in Rebuilders :
        /\ pc[w1] = "done" /\ resp[w1] = 500 /\ attempt[w1] \notin dropped
        /\ pc[w2] = "done" /\ resp[w2] = 500 /\ attempt[w2] \in dropped

\* C3: while no open at startup and no rebuild has succeeded, no engine
\* operation is invoked and every read route answers 503.
C3_NotReadyBeforeFirstHandle ==
    /\ [](swapLog = <<>> => \A t \in Readers : pc[t] # "calling")
    /\ [][\A t \in Readers :
            (swapLog = <<>> /\ InFlight(t) /\ pc'[t] = "done")
              => (pc[t] = "locked" /\ resp'[t] = 503)]_vars

\* C3 witness: a read was answered 503 after a rebuild had failed, with
\* nothing ever installed.
C3_Witness ==
    /\ swapLog = <<>>
    /\ \E t \in Readers : pc[t] = "done" /\ resp[t] = 503
    /\ \E w \in Rebuilders : pc[w] = "done" /\ resp[w] = 500

\* C4: a read that started after a swap completed runs against the handle of
\* that swap or of a later one, and is never answered 503.
C4_ReadsAfterSwapSeeNew ==
    /\ [](\A t \in Readers :
            (startLen[t] > 0 /\ pc[t] = "calling")
              => \E j \in startLen[t]..Len(swapLog) : swapLog[j] = view[t])
    /\ [][\A t \in Readers :
            (startLen[t] > 0 /\ InFlight(t) /\ pc'[t] = "done")
              => resp'[t] # 503]_vars

\* C4 witness: a read that started after the second install is running
\* against the handle of that install.
C4_Witness ==
    \E t \in Readers :
        /\ pc[t] = "calling"
        /\ startLen[t] >= 2
        /\ view[t] = swapLog[startLen[t]]

\* C5: the slot is not replaced while a read holds its view, and a read's
\* engine call runs against the handle that was current when it got its view.
C5_SwapAtomic ==
    /\ (writer # 0 => readers = {})
    /\ \A t \in Readers :
        /\ (pc[t] \in {"locked", "calling"} => (t \in readers /\ acq[t] = slot))
        /\ (pc[t] = "calling" => view[t] = acq[t])

\* C5 witness: a rebuild holds the write guard while a read waits for its view.
C5_Witness ==
    /\ writer # 0
    /\ \E t \in Readers : pc[t] = "wait_read"

\* C6 as stated: a read waits for its view only while a rebuild holds
\* exclusive access.
C6_ReadWaitsOnlyForActiveSwap ==
    \A t \in Readers : pc[t] = "wait_read" => writer # 0

\* C6 amended: a read waits for its view only while a rebuild holds
\* exclusive access or is queued for it ahead of the read.
C6_ReadWaitsOnlyBehindRebuild ==
    \A t \in Readers :
        pc[t] = "wait_read"
          => (\/ writer # 0
              \/ \E i \in 1..Len(queue) : queue[i] \in Rebuilders /\ i < Pos(t))

\* C6 witness: a read waits behind a rebuild that itself waits for a read
\* in flight.
C6_Witness ==
    /\ writer = 0
    /\ \E t \in Readers : pc[t] = "wait_read"
    /\ \E u \in Readers : pc[u] = "calling"
    /\ \E w \in Rebuilders : pc[w] = "wait_write"

\* C7: while no rebuild is in progress no read waits, every read in flight
\* holds its view, and each runs against the one current handle.
C7_ConcurrentReads ==
    (\A w \in Rebuilders : ~Building(w))
      => \A t \in Readers :
            /\ pc[t] # "wait_read"
            /\ (pc[t] \in {"locked", "calling"} => (t \in readers /\ acq[t] = slot))
            /\ (pc[t] = "calling" => view[t] = slot)

\* C7 witness: with no rebuild in progress every reader task is inside its
\* engine call, all against the current handle.
C7_Witness ==
    /\ \A w \in Rebuilders : ~Building(w)
    /\ slot # None
    /\ \A t \in Readers : pc[t] = "calling" /\ view[t] = slot

\* C8: a rebuild that waits for exclusive access eventually performs its
\* swap, however the reads keep arriving.
C8_NoWriterStarvation ==
    \A w \in Rebuilders : (pc[w] = "wait_write") ~> (pc[w] = "done" /\ resp[w] = 200)

\* C8 witness: a rebuild has swapped, and a read that arrived while the
\* rebuild held or awaited exclusive access got its view only after the swap.
C8_Witness ==
    /\ \E w \in Rebuilders : pc[w] = "done" /\ resp[w] = 200
    /\ Len(swapLog) >= 1
    /\ \E t \in Readers : pc[t] = "locked" /\ startLen[t] < Len(swapLog)

\* C9: each rebuild builds its own handle, and the current handle is the one
\* of the swap that happened last, whenever that rebuild started.
C9_LastSwapWins ==
    /\ (swapLog # <<>> => slot = Last(swapLog))
    /\ \A w1, w2 \in Rebuilders :
        (w1 # w2 /\ built[w1] # None) => built[w1] # built[w2]
    /\ \A i, j \in 1..Len(swapLog) : i # j => swapLog[i] # swapLog[j]

\* C9 witness: all rebuilds have finished and the current handle belongs to
\* a rebuild that started before the one it overwrote.
C9_Witness ==
    /\ \A w \in Rebuilders : pc[w] = "done" /\ resp[w] = 200
    /\ Len(swapLog) >= 2
    /\ swapLog[Len(swapLog)] < swapLog[Len(swapLog) - 1]
    /\ slot = Last(swapLog)

\* C10 as stated: a rebuild that has started goes on to its swap or to its
\* failure, whatever the caller does.
C10_RebuildRunsToCompletion ==
    [][\A w \in Rebuilders : Building(w) => (Building(w)' \/ pc'[w] = "done")]_vars

\* C11 as stated: a failed open at startup is not fatal, and the process
\* ends at startup only when the port cannot be bound.
C11_OnlyBindIsFatal ==
    [][(pcMain # "exited" /\ pcMain' = "exited") => pcMain = "bind"]_vars

\* C11 amended: a failed open at startup is not fatal (main goes on to build
\* AppState with an empty slot and serves); the process ends at startup when
\* the working directory cannot be read, when the project path cannot be
\* canonicalized, or when the port cannot be bound.
C11_OpenFailureNotFatal ==
    /\ [][pcMain = "open" => pcMain' \in {"open", "canon"}]_vars
    /\ [][(pcMain # "exited" /\ pcMain' = "exited")
            => pcMain \in {"args", "canon", "bind"}]_vars

\* C11 witness: the server serves with an empty slot after the open at
\* startup failed.
C11_Witness ==
    /\ pcMain = "serving"
    /\ opens >= 1
    /\ swapLog = <<>>
    /\ slot = None
    /\ \E t \in Readers : pc[t] = "done" /\ resp[t] = 503

\* C12 as stated: on the lookups, 404 is the answer to a missing entity
\* only; an internal error of the engine is not answered 404.
C12_NotFoundDistinct ==
    \A t \in Readers :
        (pc[t] = "done" /\ engErr[t] = MsgOf("internal")) => resp[t] # 404

\* C13: a read request invokes its engine operation at most once, and an
\* error of that operation is answered with an error status and a body that
\* carries the engine's message unchanged.
C13_ErrorsPassedThrough ==
    /\ [](\A t \in Readers :
            (pc[t] = "done" /\ engErr[t] # "")
              => (/\ resp[t] \in {404, 500}
                  /\ body[t] = [kind |-> "error", text |-> engErr[t]]))
    /\ [][\A t \in Readers :
            /\ (pc[t] # "calling" /\ pc'[t] = "calling") => pc[t] = "locked"
            /\ (pc[t] # "locked" /\ pc'[t] = "locked")
                 => pc[t] \in {"idle", "wait_read"}
            /\ (pc[t] = "calling" /\ pc'[t] # "calling")
                 => pc'[t] \in {"done", "idle"}]_vars

\* C13 witness: a read whose engine call failed was answered 500 with the
\* engine's message.
C13_Witness ==
    \E t \in Readers :
        /\ pc[t] = "done"
        /\ engErr[t] = "database error"
        /\ resp[t] = 500
        /\ body[t].text = "database error"

\* C14: on /search, /symbols and /files the engine is called with limit 10
\* when the request has no limit parameter, which is the call a request with
\* limit=10 makes on the same handle, and with the supplied value otherwise.
C14_DefaultLimit ==
    /\ \A t \in Readers :
          (pc[t] = "calling" /\ op[t] \in QueryOps) =>
              /\ rawLimit[t] = Omitted => limit[t] = 10
              /\ rawLimit[t] # Omitted => limit[t] = rawLimit[t]
    /\ \A t, u \in Readers :
          (/\ pc[t] = "calling" /\ pc[u] = "calling"
           /\ op[t] \in QueryOps /\ op[u] = op[t]
           /\ rawLimit[t] = Omitted /\ rawLimit[u] = 10)
              => (view[t] = view[u] /\ limit[t] = limit[u])

C14_Witness ==
    \E t, u \in Readers :
        /\ pc[t] = "calling" /\ pc[u] = "calling"
        /\ op[t] = "search_files" /\ op[u] = "search_files"
        /\ rawLimit[t] = Omitted /\ rawLimit[u] = 10
        /\ limit[t] = 10 /\ view[t] = view[u]

BuildPhase(w) == pc[w] \in {"opening", "indexing"}
QueueSet == {queue[i] : i \in 1..Len(queue)}
NoSwapPending == \A w \in Rebuilders : pc[w] \notin {"wait_write", "swapping"}

\* C15: a rebuild in its build phase (open, index) neither holds nor waits
\* for the lock; while rebuilds are only building no read waits, and a read
\* that starts then gets its view of the current slot at once.
C15_BuildHoldsNoLock ==
    /\ [](\A w \in Rebuilders :
            BuildPhase(w) => (writer # w /\ w \notin readers /\ w \notin QueueSet))
    /\ []((NoSwapPending /\ \E w \in Rebuilders : BuildPhase(w))
            => (writer = 0 /\ queue = <<>>
                /\ \A t \in Readers : pc[t] # "wait_read"))
    /\ [][\A t \in Readers :
            (/\ pc[t] = "idle" /\ pc'[t] \in {"locked", "wait_read"}
             /\ NoSwapPending /\ \E w \in Rebuilders : BuildPhase(w))
               => (pc'[t] = "locked" /\ acq'[t] = slot)]_vars

\* C15 witness: while a rebuild is indexing, one read has answered 200 and
\* another is calling the engine on the current handle.
C15_Witness ==
    /\ \E w \in Rebuilders : pc[w] = "indexing"
    /\ \E t, u \in Readers :
          /\ pc[t] = "calling" /\ view[t] = slot
          /\ pc[u] = "done" /\ resp[u] = 200

\* C16: while serving, the slot changes only in the step where a rebuild that
\* holds the write guard stores its instance and answers 200; no step of
\* health, status, the searches, the lookups or tree changes it.
C16_OnlySuccessfulRebuildWrites ==
    [][(pcMain = "serving" /\ slot' # slot) =>
        \E w \in Rebuilders :
            /\ pc[w] = "swapping" /\ writer = w
            /\ pc'[w] = "done" /\ resp'[w] = 200
            /\ slot' = built[w]]_vars

\* C16 witness: reads have answered 500 and 404 and a rebuild has failed, and
\* the slot still holds the handle the last successful rebuild stored.
C16_Witness ==
    /\ Len(swapLog) >= 1 /\ slot = Last(swapLog)
    /\ \E t, u \in Readers :
          /\ pc[t] = "done" /\ resp[t] = 500
          /\ pc[u] = "done" /\ resp[u] = 404
    /\ \E w \in Rebuilders : pc[w] = "done" /\ resp[w] = 500

\* C17: every Adi::open call, at startup and in every rebuild, is given the
\* canonicalized project root.
C17_SameRootForEveryOpen ==
    openArgs \subseteq {Canonicalize(project_path)}

\* C18: a handle is stored over another only when no read guard is held, and
\* a read calls the engine only on the handle in the slot, never on a handle
\* that has been dropped.
C18_NoReadOnReplacedHandle ==
    /\ [](\A t \in Readers :
            pc[t] = "calling" => (view[t] = slot /\ view[t] \notin dropped))
    /\ [][(pcMain = "serving" /\ slot' # slot) =>
            (/\ readers = {}
             /\ \A t \in Readers : pc[t] \notin {"locked", "calling"}
             /\ \A t \in Readers : view[t] = None)]_vars

\* C18 witness: a handle that was in the slot has been replaced and dropped,
\* and a read is calling the engine on its successor.
C18_Witness ==
    /\ Installed \cap dropped # {}
    /\ \E t \in Readers :
          pc[t] = "calling" /\ view[t] = slot /\ startLen[t] < Len(swapLog)

\* C19: a rebuild that answers 500 does so from open or index, without
\* holding or waiting for the lock, and its failing step leaves the lock and
\* every read where they were; a rebuild that has requested the write lock
\* answers 200.
C19_FailedRebuildNeverLocks ==
    /\ [][\A w \in Rebuilders :
            (pc[w] # "done" /\ pc'[w] = "done" /\ resp'[w] = 500) =>
                /\ BuildPhase(w)
                /\ writer # w /\ w \notin QueueSet
                /\ writer' # w /\ queue' = queue /\ readers' = readers
                /\ \A t \in Readers : pc'[t] = pc[t]]_vars
    /\ [][\A w \in Rebuilders :
            (pc[w] \in {"wait_write", "swapping"} /\ pc'[w] = "done")
                => resp'[w] = 200]_vars

\* C19 witness: a rebuild has failed while one read holds its view and another
\* is calling the engine, and nothing waits for the lock.
C19_Witness ==
    /\ \E w \in Rebuilders : pc[w] = "done" /\ resp[w] = 500
    /\ queue = <<>> /\ writer = 0
    /\ \E t, u \in Readers : pc[t] = "locked" /\ pc[u] = "calling"

\* C20: a task that waits for the lock holds no guard, and a task holds at
\* most one guard; with fair scheduling and engine calls that return, every
\* read and every rebuild answers, unless its client went away first (the
\* task is back to idle).
C20_NoDeadlock ==
    /\ [](\A t \in Tasks : t \in QueueSet => (t \notin readers /\ writer # t))
    /\ [](\A t \in Tasks : ~(t \in readers /\ writer = t))
    /\ [](writer # 0 => readers = {})
    /\ \A t \in Readers : InFlight(t) ~> (pc[t] \in {"done", "idle"})
    /\ \A w \in Rebuilders : Building(w) ~> (pc[w] \in {"done", "idle"})

\* C20 witness: one rebuild has answered 200 and, behind a read that is
\* calling the engine, another rebuild and another read are queued for the
\* lock in that order.
C20_Witness ==
    /\ \E w \in Rebuilders : pc[w] = "done" /\ resp[w] = 200
    /\ \E t \in Readers : pc[t] = "calling" /\ t \in readers
    /\ Len(queue) = 2 /\ queue[1] \in Rebuilders /\ queue[2] \in Readers

====
